---- MODULE Spec2Model ----
(***************************************************************************)
(* A model of go-llm-specs: the generated registry (staticRegistry and     *)
(* aliasIndex, as the generator's main() and the generated init() build    *)
(* them) and the read operations of the package: Get, GetMany, the         *)
(* QueryBuilder (Query, Provider, Has, List) and Search.                   *)
(*                                                                         *)
(* A Go string is a sequence of one-character strings, so that ToLower,    *)
(* HasPrefix, Contains, Split and the byte order of < are computed and not *)
(* assumed.  A *modelData is the record it points to.                      *)
(***************************************************************************)
EXTENDS Integers, Sequences, FiniteSets, TLC

\* ------------------------------------------------------------------ bounds
\* Most records a dataset holds.
MaxModels == 2
\* Longest list of names handed to GetMany.
MaxNames == 3
\* Largest limit handed to Search (the smallest is -1).
MaxLimit == 1
\* Most Provider/Has calls chained on one builder.
MaxChain == 2
\* Most bits set in a capability value.
MaxCaps == 3

\* ----------------------------------------------------------------- strings
Chars == {"/", "A", "B", "G", "P", "Q", "X", "Y", "a", "b", "g", "p", "q", "x", "y"}

\* The byte value of a character: Go compares strings bytewise.
Ord(c) ==
    CASE c = "/" -> 47
      [] c = "A" -> 65
      [] c = "B" -> 66
      [] c = "G" -> 71
      [] c = "P" -> 80
      [] c = "Q" -> 81
      [] c = "X" -> 88
      [] c = "Y" -> 89
      [] c = "a" -> 97
      [] c = "b" -> 98
      [] c = "g" -> 103
      [] c = "p" -> 112
      [] c = "q" -> 113
      [] c = "x" -> 120
      [] c = "y" -> 121

\* unicode.ToLower / unicode.ToUpper on one ASCII character.
LowerChar(c) == IF Ord(c) >= 65 /\ Ord(c) <= 90
                THEN CHOOSE d \in Chars : Ord(d) = Ord(c) + 32
                ELSE c
UpperChar(c) == IF Ord(c) >= 97 /\ Ord(c) <= 122
                THEN CHOOSE d \in Chars : Ord(d) = Ord(c) - 32
                ELSE c

ToLower(s) == [i \in 1..Len(s) |-> LowerChar(s[i])]
ToUpper(s) == [i \in 1..Len(s) |-> UpperChar(s[i])]

\* strings.EqualFold on ASCII: equal under simple case folding.
EqualFold(s, t) == ToLower(s) = ToLower(t)

HasPrefix(s, p) == Len(p) <= Len(s) /\ SubSeq(s, 1, Len(p)) = p

Contains(s, sub) ==
    \E i \in 0..(Len(s) - Len(sub)) : SubSeq(s, i + 1, i + Len(sub)) = sub

\* The Go string order s < t: bytewise lexicographic.
RECURSIVE StrLess(_, _)
StrLess(s, t) ==
    IF t = <<>> THEN FALSE
    ELSE IF s = <<>> THEN TRUE
    ELSE IF Ord(s[1]) # Ord(t[1]) THEN Ord(s[1]) < Ord(t[1])
    ELSE StrLess(Tail(s), Tail(t))

\* ------------------------------------------------------------ capabilities
ModalityTextIn == 1
ModalityTextOut == 2
ModalityImageIn == 4
ModalityImageOut == 8
ModalityAudioIn == 16
ModalityAudioOut == 32
ModalityVideoIn == 64
ModalityVideoOut == 128
ModalityFileIn == 256
ModalityFileOut == 512
CapFunctionCall == 65536
CapJsonMode == 131072
CapSystemPrompt == 262144

\* a & b and a | b on unsigned integers.
RECURSIVE BitAnd(_, _)
BitAnd(a, b) ==
    IF a = 0 \/ b = 0 THEN 0
    ELSE (a % 2) * (b % 2) + 2 * BitAnd(a \div 2, b \div 2)

RECURSIVE BitOr(_, _)
BitOr(a, b) ==
    IF a = 0 THEN b
    ELSE IF b = 0 THEN a
    ELSE (IF a % 2 = 1 \/ b % 2 = 1 THEN 1 ELSE 0) + 2 * BitOr(a \div 2, b \div 2)

\* --------------------------------------------------- the producer's input
\* A ModelRegistry entry of the generator: what loadRegistry hands to main.
\* Features is the value the generated Go expression evaluates to.
Entry(id, name, provider, features, aliases) ==
    [ID |-> id, Name |-> name, Provider |-> provider,
     Features |-> features, Aliases |-> aliases]

\* The candidate entries datasets are drawn from.
Catalog ==
    { Entry(<<"a","/","x">>, <<"X">>, <<"P">>,
            BitOr(ModalityTextIn, ModalityImageIn), <<>>),
      Entry(<<"a","/","x">>, <<"a","x">>, <<"p">>,
            ModalityTextIn, << <<"G","X">> >>),
      Entry(<<"b","/","x">>, <<"x">>, <<"Q">>,
            ModalityImageIn, << <<"a","/","x">> >>),
      Entry(<<"b","/","x">>, <<"b">>, <<"p">>,
            BitOr(CapFunctionCall, BitOr(ModalityTextIn, ModalityImageIn)),
            << <<"g","x">>, <<"X">> >>),
      Entry(<<"b","/","x","y">>, <<"x","y">>, <<"P">>,
            CapFunctionCall, << <<"b","/","x">>, <<"B","/","X">> >>),
      Entry(<<"b","/","x","y">>, <<"X">>, <<"q">>,
            BitOr(ModalityTextIn, BitOr(ModalityTextOut, ModalityImageIn)), <<>>),
      Entry(<<"x">>, <<"x">>, <<"p">>,
            ModalityTextIn, << <<"y">> >>),
      Entry(<<"x">>, <<"b","/","x">>, <<"Q">>, 0, <<>>),
      Entry(<<"X">>, <<"x","y">>, <<"P">>,
            BitOr(ModalityTextIn, ModalityImageIn), << <<"x">> >>) }

\* finalModels is a Go map keyed by ID: the IDs of a dataset are distinct.
Datasets ==
    { D \in SUBSET Catalog :
        /\ Cardinality(D) <= MaxModels
        /\ \A e1, e2 \in D : e1.ID = e2.ID => e1 = e2 }

\* Every order a range over a map of the entries D can take.
Orders(D) ==
    { o \in [1..Cardinality(D) -> D] : \A i, j \in DOMAIN o : o[i] = o[j] => i = j }

\* ------------------------------------------------------------ the generator
HasSlash(id) == \E i \in DOMAIN id : id[i] = "/"

\* parts[len(parts)-1] of strings.Split(id, "/")
Suffix(id) ==
    LET last == CHOOSE i \in DOMAIN id :
                    id[i] = "/" /\ \A j \in DOMAIN id : id[j] = "/" => j <= i
    IN  SubSeq(id, last + 1, Len(id))

\* suffixCounts[suffix] after the counting loop over processedModels.
SuffixCount(models, suffix) ==
    Cardinality({ i \in DOMAIN models :
                    HasSlash(models[i].ID) /\ Suffix(models[i].ID) = suffix })

\* Step 6 without the count: the suffix is appended whether or not another ID
\* has it.
WithSuffixAliasAlways(models, p) ==
    IF /\ HasSlash(p.ID)
       /\ ~ \E i \in DOMAIN p.Aliases : EqualFold(p.Aliases[i], Suffix(p.ID))
    THEN [p EXCEPT !.Aliases = Append(p.Aliases, Suffix(p.ID))]
    ELSE p

\* The second loop of step 6 on one model: append the suffix when it is unique
\* and no alias of the model equals it ignoring case.
WithSuffixAlias(models, p) ==
    IF /\ HasSlash(p.ID)
       /\ SuffixCount(models, Suffix(p.ID)) = 1
       /\ ~ \E i \in DOMAIN p.Aliases : EqualFold(p.Aliases[i], Suffix(p.ID))
    THEN [p EXCEPT !.Aliases = Append(p.Aliases, Suffix(p.ID))]
    ELSE p

\* sort.Slice(processedModels, less by ID): insertion of each element in turn.
RECURSIVE InsertByID(_, _)
InsertByID(sorted, p) ==
    IF sorted = <<>> THEN <<p>>
    ELSE IF StrLess(p.ID, sorted[1].ID) THEN <<p>> \o sorted
    ELSE <<sorted[1]>> \o InsertByID(Tail(sorted), p)

RECURSIVE SortByID(_)
SortByID(models) ==
    IF models = <<>> THEN <<>>
    ELSE InsertByID(SortByID(SubSeq(models, 1, Len(models) - 1)), models[Len(models)])

\* Steps 5 and 6 and the sort: processedModels, in the order the map range
\* enumerated the entries, with the suffix aliases, sorted by ID.
ProcessedModels(order) ==
    SortByID([i \in DOMAIN order |-> WithSuffixAlias(order, order[i])])

\* Step 7 where the later model takes the alias over.
PutAliasLastWins(aliasMap, alias, id) ==
    LET lowerAlias == ToLower(alias)
    IN  [a \in DOMAIN aliasMap \cup {lowerAlias} |->
            IF a = lowerAlias THEN id ELSE aliasMap[a]]

\* Step 7 with the alias as it is spelled.
PutAliasNoLower(aliasMap, alias, id) ==
    IF alias \in DOMAIN aliasMap /\ aliasMap[alias] # id
    THEN aliasMap
    ELSE [a \in DOMAIN aliasMap \cup {alias} |->
             IF a = alias THEN id ELSE aliasMap[a]]

\* One iteration of the inner loop of step 7.
PutAlias(aliasMap, alias, id) ==
    LET lowerAlias == ToLower(alias)
    IN  IF lowerAlias \in DOMAIN aliasMap /\ aliasMap[lowerAlias] # id
        THEN aliasMap
        ELSE [a \in DOMAIN aliasMap \cup {lowerAlias} |->
                 IF a = lowerAlias THEN id ELSE aliasMap[a]]

RECURSIVE PutAliases(_, _, _)
PutAliases(aliasMap, aliases, id) ==
    IF aliases = <<>> THEN aliasMap
    ELSE PutAliases(PutAlias(aliasMap, aliases[1], id), Tail(aliases), id)

\* Step 7: the alias map after the models processed so far.
RECURSIVE AliasMapOf(_)
AliasMapOf(models) ==
    IF models = <<>> THEN <<>>
    ELSE LET p == models[Len(models)]
         IN  PutAliases(AliasMapOf(SubSeq(models, 1, Len(models) - 1)), p.Aliases, p.ID)

\* The modelData literal the template writes for one processed model.
ModelData(p) ==
    [IDVal |-> p.ID, NameVal |-> p.Name, ProviderVal |-> p.Provider,
     FeaturesVal |-> p.Features, AliasList |-> p.Aliases]

\* The map literal of the generated init(): one entry per processed model.
RegistryOf(models) ==
    [id \in { models[i].ID : i \in DOMAIN models } |->
        ModelData(models[CHOOSE i \in DOMAIN models : models[i].ID = id])]

\* ------------------------------------------------------------------- state
VARIABLES
    staticRegistry,   \* map[string]*modelData
    aliasIndex,       \* map[string]string
    q,                \* the QueryBuilder the caller holds, with the calls made on it
    last,             \* the most recent call: operation, arguments, result
    gen,              \* the build and start-up: the generator's variables and where
                      \* the generator, then the generated init(), stand
    prev              \* the call before the most recent one, when it was the same
                      \* operation with the same arguments (for Search: the same query)

vars == <<staticRegistry, aliasIndex, q, last, prev, gen>>

NoCall == [op |-> "none"]

\* The generated init() has returned: the program is in main, where the
\* package's functions are called.
Started == [pc |-> "main"]

\* Calls of the package's functions between the two assignments of init().
CanReadDuringInit == gen.pc \in {"init_aliasIndex", "main"}

\* Go runs a package's init() to its end before any code that imports the
\* package can call its functions.
CanRead == gen.pc = "main"

\* &QueryBuilder{}
NewBuilder == [provider |-> <<>>, capability |-> 0, calls |-> <<>>]

Init ==
    \E D \in Datasets : \E order \in Orders(D) :
        LET models == ProcessedModels(order)
        IN  /\ staticRegistry = RegistryOf(models)
            /\ aliasIndex = AliasMapOf(models)
            /\ q = NewBuilder
            /\ last = NoCall
            /\ prev = NoCall
            /\ gen = Started

\* ------------------------------------------------------------------ lookup
\* Get with the two lookups in the other order: the alias index first.
GetResultAliasFirst(name) ==
    IF /\ ToLower(name) \in DOMAIN aliasIndex
       /\ aliasIndex[ToLower(name)] \in DOMAIN staticRegistry
    THEN [m |-> <<staticRegistry[aliasIndex[ToLower(name)]]>>, ok |-> TRUE]
    ELSE IF name \in DOMAIN staticRegistry
    THEN [m |-> <<staticRegistry[name]>>, ok |-> TRUE]
    ELSE [m |-> <<>>, ok |-> FALSE]

\* Get that looks the name up in the alias index as it is spelled.
GetResultNoLower(name) ==
    IF name \in DOMAIN staticRegistry
    THEN [m |-> <<staticRegistry[name]>>, ok |-> TRUE]
    ELSE IF name \in DOMAIN aliasIndex /\ aliasIndex[name] \in DOMAIN staticRegistry
    THEN [m |-> <<staticRegistry[aliasIndex[name]]>>, ok |-> TRUE]
    ELSE [m |-> <<>>, ok |-> FALSE]

\* Get that reports an alias hit with the record missing.
GetResultAliasNil(name) ==
    IF name \in DOMAIN staticRegistry
    THEN [m |-> <<staticRegistry[name]>>, ok |-> TRUE]
    ELSE IF ToLower(name) \in DOMAIN aliasIndex
    THEN [m |-> <<>>, ok |-> TRUE]
    ELSE [m |-> <<>>, ok |-> FALSE]

\* What Get returns: m is <<>> for nil and <<record>> for a model.
GetResult(name) ==
    IF name \in DOMAIN staticRegistry
    THEN [m |-> <<staticRegistry[name]>>, ok |-> TRUE]
    ELSE IF /\ ToLower(name) \in DOMAIN aliasIndex
            /\ aliasIndex[ToLower(name)] \in DOMAIN staticRegistry
    THEN [m |-> <<staticRegistry[aliasIndex[ToLower(name)]]>>, ok |-> TRUE]
    ELSE [m |-> <<>>, ok |-> FALSE]

\* GetMany that puts each found model in front of the ones found before it.
RECURSIVE GetManyResultReversed(_)
GetManyResultReversed(names) ==
    IF names = <<>> THEN <<>>
    ELSE LET r == GetResult(names[1])
         IN  GetManyResultReversed(Tail(names)) \o (IF r.ok THEN r.m ELSE <<>>)

\* The loop of GetMany: results after the names, in order.
RECURSIVE GetManyResult(_)
GetManyResult(names) ==
    IF names = <<>> THEN <<>>
    ELSE LET r == GetResult(names[Len(names)])
             results == GetManyResult(SubSeq(names, 1, Len(names) - 1))
         IN  IF r.ok THEN results \o r.m ELSE results

\* The names callers look up.
LookupNames ==
    { <<"a","/","x">>, <<"A","/","X">>, <<"b","/","x">>, <<"B","/","x">>,
      <<"b","/","x","y">>, <<"x">>, <<"X">>, <<"g","x">>, <<"G","X">>,
      <<"y">>, <<"g">>, <<>> }

\* The names callers put in a batch.
BatchNames == { <<"a","/","x">>, <<"X">>, <<"g">> }

NameLists == UNION { [1..n -> BatchNames] : n \in 0..MaxNames }

\* Get that keeps what it found: a name found through the alias index is
\* stored in the registry under that name.
GetCaching(name) ==
    /\ CanRead
    /\ last' = [op |-> "Get", name |-> name, ret |-> GetResult(name)]
    /\ prev' = IF last.op = "Get" /\ last.name = name THEN last ELSE NoCall
    /\ staticRegistry' =
          IF GetResult(name).ok
          THEN [k \in DOMAIN staticRegistry \cup {name} |->
                   IF k = name THEN GetResult(name).m[1] ELSE staticRegistry[k]]
          ELSE staticRegistry
    /\ UNCHANGED <<aliasIndex, q, gen>>

Get(name) ==
    /\ CanRead
    /\ last' = [op |-> "Get", name |-> name, ret |-> GetResult(name)]
    /\ prev' = IF last.op = "Get" /\ last.name = name THEN last ELSE NoCall
    /\ UNCHANGED <<staticRegistry, aliasIndex, q, gen>>

GetMany(names) ==
    /\ CanRead
    /\ last' = [op |-> "GetMany", names |-> names, ret |-> GetManyResult(names)]
    /\ prev' = IF last.op = "GetMany" /\ last.names = names THEN last ELSE NoCall
    /\ UNCHANGED <<staticRegistry, aliasIndex, q, gen>>

NextLookup ==
    \/ \E name \in LookupNames : Get(name)
    \/ \E names \in NameLists : GetMany(names)

SpecLookup == Init /\ [][NextLookup]_vars

\* ------------------------------------------------------------ claims: lookup
\* C1: for every record R of the registry, Get(R.ID()) returns (R, true),
\* whatever the alias index holds, also when R's key is spelled like an alias
\* that is registered to another record.
C1_GetByPrimaryKey ==
    last.op = "Get" =>
        \A k \in DOMAIN staticRegistry :
            LET R == staticRegistry[k]
            IN  last.name = R.IDVal => last.ret = [m |-> <<R>>, ok |-> TRUE]

\* A Get of a primary key that is also an alias of another record has returned.
C1_Witness ==
    /\ last.op = "Get"
    /\ last.name \in DOMAIN staticRegistry
    /\ last.name = staticRegistry[last.name].IDVal
    /\ ToLower(last.name) \in DOMAIN aliasIndex
    /\ aliasIndex[ToLower(last.name)] # last.name
    /\ last.ret.ok

\* C2 as stated: for every entry (A -> K) of the alias index, Get(A),
\* Get(uppercase(A)) and Get(lowercase(A)) each return the record of key K.
C2_Original ==
    last.op = "Get" =>
        \A A \in DOMAIN aliasIndex :
            last.name \in {A, ToUpper(A), ToLower(A)} =>
                last.ret = [m |-> <<staticRegistry[aliasIndex[A]]>>, ok |-> TRUE]

\* C2 as amended: for every entry (A -> K) of the alias index, Get(A),
\* Get(uppercase(A)) and Get(lowercase(A)) each return the record of key K,
\* except that a spelling which is itself a primary key of the registry
\* returns the record of that primary key.
C2_AliasAnyCase ==
    last.op = "Get" =>
        \A A \in DOMAIN aliasIndex :
            last.name \in {A, ToUpper(A), ToLower(A)} =>
                IF last.name \in DOMAIN staticRegistry
                THEN last.ret = [m |-> <<staticRegistry[last.name]>>, ok |-> TRUE]
                ELSE last.ret = [m |-> <<staticRegistry[aliasIndex[A]]>>, ok |-> TRUE]

\* A Get of the uppercase spelling of an alias, which is no primary key, has
\* returned the record the alias is registered to.
C2_Witness ==
    /\ last.op = "Get"
    /\ last.name \notin DOMAIN staticRegistry
    /\ \E A \in DOMAIN aliasIndex :
          /\ last.name = ToUpper(A)
          /\ last.name # A
          /\ last.ret.ok
          /\ last.ret.m[1].IDVal = aliasIndex[A]

\* C3: Get(name) reports found exactly when name is a primary key or
\* lowercase(name) is an alias whose target is a primary key; otherwise it
\* returns (nil, false) as a value.
C3_FoundIff ==
    last.op = "Get" =>
        LET known == \/ last.name \in DOMAIN staticRegistry
                     \/ /\ ToLower(last.name) \in DOMAIN aliasIndex
                        /\ aliasIndex[ToLower(last.name)] \in DOMAIN staticRegistry
        IN  /\ last.ret.ok <=> known
            /\ last.ret.ok => Len(last.ret.m) = 1
            /\ ~ last.ret.ok => last.ret.m = <<>>

\* A Get of a non-empty name that is neither key nor alias has returned
\* (nil, false), in a registry that holds records and aliases.
C3_Witness ==
    /\ last.op = "Get"
    /\ last.name # <<>>
    /\ DOMAIN staticRegistry # {}
    /\ DOMAIN aliasIndex # {}
    /\ last.ret = [m |-> <<>>, ok |-> FALSE]

\* C4: GetMany(names) is the sequence of Get's results for the names that
\* resolve, in the order of the names: unresolved names are dropped, a record
\* resolved by several names appears once per name, and the length is the
\* number of resolving names.
C4_GetManyIsFilteredGets ==
    last.op = "GetMany" =>
        LET names == last.names
            found == { i \in DOMAIN names : GetResult(names[i]).ok }
            \* the position in names of the j-th name that resolves
            nth(j) == CHOOSE i \in found :
                          Cardinality({ h \in found : h <= i }) = j
        IN  /\ Len(last.ret) = Cardinality(found)
            /\ \A j \in DOMAIN last.ret :
                  <<last.ret[j]>> = GetResult(names[nth(j)]).m

\* A GetMany of three names has returned two records: the second name did not
\* resolve, and the first and the third resolved to the same record by
\* different spellings.
C4_Witness ==
    /\ last.op = "GetMany"
    /\ Len(last.names) = 3
    /\ GetResult(last.names[1]).ok
    /\ ~ GetResult(last.names[2]).ok
    /\ GetResult(last.names[3]).ok
    /\ last.names[1] # last.names[3]
    /\ Len(last.ret) = 2
    /\ last.ret[1] = last.ret[2]
\* ------------------------------------------------------------ QueryBuilder
\* Every order a range over staticRegistry can take: Go does not fix it.
RangeOrders ==
    { o \in [1..Cardinality(DOMAIN staticRegistry) -> DOMAIN staticRegistry] :
        \A i, j \in DOMAIN o : o[i] = o[j] => i = j }

\* List's loop body with the provider compared as spelled.
KeepsCaseSensitive(b, m) ==
    /\ ~ (b.provider # <<>> /\ m.ProviderVal # b.provider)
    /\ ~ (b.capability # 0 /\ BitAnd(m.FeaturesVal, b.capability) # b.capability)

\* List's loop body without the test for an unset provider.
KeepsProviderAlways(b, m) ==
    /\ EqualFold(m.ProviderVal, b.provider)
    /\ ~ (b.capability # 0 /\ BitAnd(m.FeaturesVal, b.capability) # b.capability)

\* List's loop body with Capability.Has in place of the superset test.
KeepsAnyBit(b, m) ==
    /\ ~ (b.provider # <<>> /\ ~ EqualFold(m.ProviderVal, b.provider))
    /\ ~ (b.capability # 0 /\ BitAnd(m.FeaturesVal, b.capability) = 0)

\* List's loop body keeping a model that passes either filter that is set.
KeepsEither(b, m) ==
    \/ b.provider = <<>> /\ b.capability = 0
    \/ b.provider # <<>> /\ EqualFold(m.ProviderVal, b.provider)
    \/ b.capability # 0 /\ BitAnd(m.FeaturesVal, b.capability) = b.capability

\* The body of List's loop: TRUE when neither continue is taken for model m.
Keeps(b, m) ==
    /\ ~ (b.provider # <<>> /\ ~ EqualFold(m.ProviderVal, b.provider))
    /\ ~ (b.capability # 0 /\ BitAnd(m.FeaturesVal, b.capability) # b.capability)

\* List's loop over the registry in the order the range takes.
RECURSIVE ListResult(_, _)
ListResult(b, order) ==
    IF order = <<>> THEN <<>>
    ELSE LET m == staticRegistry[order[Len(order)]]
             results == ListResult(b, SubSeq(order, 1, Len(order) - 1))
         IN  IF Keeps(b, m) THEN Append(results, m) ELSE results

\* The providers and capabilities callers ask for.
ProviderArgs == { <<>>, <<"p">>, <<"P">>, <<"Q">> }
CapabilityArgs ==
    { 0, ModalityTextIn, ModalityImageIn, BitOr(ModalityTextIn, CapFunctionCall) }

\* Provider that keeps a provider already set.
WithProviderKeepFirst(b, p) ==
    IF b.provider = <<>> THEN [b EXCEPT !.provider = p] ELSE b

\* q.provider = p
WithProvider(b, p) == [b EXCEPT !.provider = p]

\* Has that replaces the capabilities asked for so far.
WithHasReplace(b, cap) == [b EXCEPT !.capability = cap]

\* q.capability |= cap
WithHas(b, cap) == [b EXCEPT !.capability = BitOr(@, cap)]

Query ==
    /\ CanRead
    /\ q' = NewBuilder
    /\ last' = [op |-> "Query"]
    /\ prev' = NoCall
    /\ UNCHANGED <<staticRegistry, aliasIndex, gen>>

Provider(p) ==
    /\ CanRead
    /\ Len(q.calls) < MaxChain
    /\ q' = [WithProvider(q, p) EXCEPT
                 !.calls = Append(@, [fn |-> "Provider", arg |-> p])]
    /\ last' = [op |-> "Provider", arg |-> p]
    /\ prev' = NoCall
    /\ UNCHANGED <<staticRegistry, aliasIndex, gen>>

Has(cap) ==
    /\ CanRead
    /\ Len(q.calls) < MaxChain
    /\ q' = [WithHas(q, cap) EXCEPT
                 !.calls = Append(@, [fn |-> "Has", arg |-> cap])]
    /\ last' = [op |-> "Has", arg |-> cap]
    /\ prev' = NoCall
    /\ UNCHANGED <<staticRegistry, aliasIndex, gen>>

List ==
    /\ CanRead
    /\ \E order \in RangeOrders :
          last' = [op |-> "List", ret |-> ListResult(q, order)]
    /\ prev' = IF last.op = "List" THEN last ELSE NoCall
    /\ UNCHANGED <<staticRegistry, aliasIndex, q, gen>>

NextQuery ==
    \/ Query
    \/ \E p \in ProviderArgs : Provider(p)
    \/ \E cap \in CapabilityArgs : Has(cap)
    \/ List

SpecQuery == Init /\ [][NextQuery]_vars

\* ------------------------------------------------------------- claims: query
\* The records of the registry, and the records of a returned list.
AllRecords == { staticRegistry[k] : k \in DOMAIN staticRegistry }
Members(list) == { list[i] : i \in DOMAIN list }

\* The positions of the bits set in n (the defined bits end at bit 18).
BitsOf(n) == { i \in 0..30 : (n \div (2 ^ i)) % 2 = 1 }

\* C5: Query().List() with no Provider and no Has call returns every record
\* of the registry exactly once.
C5_EmptyQueryListsAll ==
    (last.op = "List" /\ q.calls = <<>>) =>
        /\ Len(last.ret) = Cardinality(DOMAIN staticRegistry)
        /\ Members(last.ret) = AllRecords

\* An unfiltered List over a registry with two or more records has returned.
C5_Witness ==
    /\ last.op = "List"
    /\ q.calls = <<>>
    /\ Cardinality(DOMAIN staticRegistry) >= 2
    /\ Len(last.ret) >= 2

\* C6: for a non-empty provider p, Query().Provider(p).List() returns exactly
\* the records whose provider equals p ignoring letter case, each once.
C6_ProviderFilter ==
    (/\ last.op = "List"
     /\ Len(q.calls) = 1
     /\ q.calls[1].fn = "Provider"
     /\ q.calls[1].arg # <<>>) =>
        LET p == q.calls[1].arg
            matching == { R \in AllRecords : ToUpper(R.ProviderVal) = ToUpper(p) }
        IN  /\ Members(last.ret) = matching
            /\ Len(last.ret) = Cardinality(matching)

\* Query().Provider(p).List() has returned a record whose provider is p in
\* another letter case, and has left out a record of another provider.
C6_Witness ==
    /\ last.op = "List"
    /\ Len(q.calls) = 1
    /\ q.calls[1].fn = "Provider"
    /\ q.calls[1].arg # <<>>
    /\ \E i \in DOMAIN last.ret : last.ret[i].ProviderVal # q.calls[1].arg
    /\ AllRecords \ Members(last.ret) # {}

\* C7: Query().Has(A).Has(B).List() returns exactly the records whose
\* capability set contains every bit of A|B; a record that has A but lacks a
\* bit of B is left out.
C7_HasHasIsSuperset ==
    (/\ last.op = "List"
     /\ Len(q.calls) = 2
     /\ q.calls[1].fn = "Has"
     /\ q.calls[2].fn = "Has") =>
        LET A == q.calls[1].arg
            B == q.calls[2].arg
            matching == { R \in AllRecords :
                            BitsOf(A) \cup BitsOf(B) \subseteq BitsOf(R.FeaturesVal) }
        IN  /\ Members(last.ret) = matching
            /\ Len(last.ret) = Cardinality(matching)

\* Query().Has(A).Has(B).List() has returned a record and has left out a
\* record that has every bit of A but lacks a bit of B.
C7_Witness ==
    /\ last.op = "List"
    /\ Len(q.calls) = 2
    /\ q.calls[1].fn = "Has"
    /\ q.calls[2].fn = "Has"
    /\ last.ret # <<>>
    /\ \E R \in AllRecords \ Members(last.ret) :
          /\ q.calls[1].arg # 0
          /\ BitsOf(q.calls[1].arg) \subseteq BitsOf(R.FeaturesVal)
          /\ ~ (BitsOf(q.calls[2].arg) \subseteq BitsOf(R.FeaturesVal))

\* C8: with a provider and capabilities set on one builder, in either order
\* of the two calls, List() returns exactly the records that satisfy the
\* provider predicate and the capability-superset predicate.
C8_ProviderAndHas ==
    (/\ last.op = "List"
     /\ Len(q.calls) = 2
     /\ {q.calls[1].fn, q.calls[2].fn} = {"Provider", "Has"}
     /\ q.provider # <<>>
     /\ q.capability # 0) =>
        LET ip == CHOOSE i \in 1..2 : q.calls[i].fn = "Provider"
            p == q.calls[ip].arg
            c == q.calls[3 - ip].arg
            matching == { R \in AllRecords :
                            /\ ToUpper(R.ProviderVal) = ToUpper(p)
                            /\ BitsOf(c) \subseteq BitsOf(R.FeaturesVal) }
        IN  /\ Members(last.ret) = matching
            /\ Len(last.ret) = Cardinality(matching)

\* Query().Has(c).Provider(p).List() has returned a record and has left out a
\* record of provider p that lacks a bit of c.
C8_Witness ==
    /\ last.op = "List"
    /\ Len(q.calls) = 2
    /\ q.calls[1].fn = "Has"
    /\ q.calls[2].fn = "Provider"
    /\ q.provider # <<>>
    /\ q.capability # 0
    /\ last.ret # <<>>
    /\ \E R \in AllRecords \ Members(last.ret) :
          EqualFold(R.ProviderVal, q.provider)
\* ------------------------------------------------------------------ Search
\* The alias loop that stops at the first alias that matches.
RECURSIVE AliasScoreFirstOnly(_, _)
AliasScoreFirstOnly(aliases, query) ==
    IF aliases = <<>> THEN 0
    ELSE LET a == ToLower(aliases[1])
         IN  IF a = query THEN 80
             ELSE IF Contains(a, query) THEN 15
             ELSE AliasScoreFirstOnly(Tail(aliases), query)

\* The alias loop of Search: what the aliases add to the score.
RECURSIVE AliasScore(_, _)
AliasScore(aliases, query) ==
    IF aliases = <<>> THEN 0
    ELSE LET a == ToLower(aliases[Len(aliases)])
             rest == AliasScore(SubSeq(aliases, 1, Len(aliases) - 1), query)
         IN  IF a = query THEN rest + 80
             ELSE IF Contains(a, query) THEN rest + 15
             ELSE rest

\* The score with one chain over the ID rules: exact, else prefix, else
\* substring.
ScoreExclusive(m, query) ==
    LET id == ToLower(m.IDVal)
        name == ToLower(m.NameVal)
        exact == IF id = query THEN 100 ELSE IF name = query THEN 90 ELSE 0
        prefix == IF id = query THEN 0
                  ELSE IF HasPrefix(id, query) THEN 50
                  ELSE IF HasPrefix(name, query) THEN 40 ELSE 0
        substring == IF HasPrefix(id, query) THEN 0
                     ELSE IF Contains(id, query) THEN 20
                     ELSE IF Contains(name, query) THEN 10 ELSE 0
    IN  exact + prefix + substring + AliasScore(m.AliasList, query)

\* The score with the name rules added whether or not the ID rule matched.
ScoreNameAlways(m, query) ==
    LET id == ToLower(m.IDVal)
        name == ToLower(m.NameVal)
        points(cond, n) == IF cond THEN n ELSE 0
    IN  points(id = query, 100) + points(name = query, 90)
          + points(HasPrefix(id, query), 50) + points(HasPrefix(name, query), 40)
          + points(Contains(id, query), 20) + points(Contains(name, query), 10)
          + AliasScore(m.AliasList, query)

\* The score that counts a record whatever it holds.
ScoreAtLeastOne(m, query) == 1

\* The score Search gives model m for the lowercased query.
Score(m, query) ==
    LET id == ToLower(m.IDVal)
        name == ToLower(m.NameVal)
        exact == IF id = query THEN 100 ELSE IF name = query THEN 90 ELSE 0
        prefix == IF HasPrefix(id, query) THEN 50
                  ELSE IF HasPrefix(name, query) THEN 40 ELSE 0
        substring == IF Contains(id, query) THEN 20
                     ELSE IF Contains(name, query) THEN 10 ELSE 0
    IN  exact + prefix + substring + AliasScore(m.AliasList, query)

\* The scoring loop: the searchResults appended, in the order the range takes.
RECURSIVE Scored(_, _)
Scored(query, order) ==
    IF order = <<>> THEN <<>>
    ELSE LET m == staticRegistry[order[Len(order)]]
             results == Scored(query, SubSeq(order, 1, Len(order) - 1))
             score == Score(m, query)
         IN  IF score > 0 THEN Append(results, [m |-> m, score |-> score])
             ELSE results

\* The less function without the tie-break on the ID.
SearchLessNoTie(x, y) == x.score > y.score

\* The less function handed to sort.Slice.
SearchLess(x, y) ==
    IF x.score = y.score THEN StrLess(x.m.IDVal, y.m.IDVal) ELSE x.score > y.score

\* sort.Slice(results, less).  The IDs of the results are distinct, so less is
\* a strict total order and every sort yields the one sequence insertion yields.
RECURSIVE InsertRanked(_, _)
InsertRanked(sorted, r) ==
    IF sorted = <<>> THEN <<r>>
    ELSE IF SearchLess(r, sorted[1]) THEN <<r>> \o sorted
    ELSE <<sorted[1]>> \o InsertRanked(Tail(sorted), r)

\* No sort at all: the results stay in the order the range appended them.
SortRankedNone(results) == results

RECURSIVE SortRanked(_)
SortRanked(results) ==
    IF results = <<>> THEN <<>>
    ELSE InsertRanked(SortRanked(SubSeq(results, 1, Len(results) - 1)),
                      results[Len(results)])

\* results[:limit] when limit > 0 && len(results) > limit
Limited(results, limit) ==
    IF limit > 0 /\ Len(results) > limit THEN SubSeq(results, 1, limit) ELSE results

\* Search without the early return for the empty query.
SearchResultNoEmptyGuard(query, limit, order) ==
    LET results == Limited(SortRanked(Scored(ToLower(query), order)), limit)
    IN  [i \in DOMAIN results |-> results[i].m]

\* Search that cuts the results to the limit before it sorts them.
SearchResultLimitFirst(query, limit, order) ==
    IF query = <<>> THEN <<>>
    ELSE LET results == SortRanked(Limited(Scored(ToLower(query), order), limit))
         IN  [i \in DOMAIN results |-> results[i].m]

\* What Search returns when the range over the registry takes the given order.
SearchResult(query, limit, order) ==
    IF query = <<>> THEN <<>>
    ELSE LET results == Limited(SortRanked(Scored(ToLower(query), order)), limit)
         IN  [i \in DOMAIN results |-> results[i].m]

\* The local slice results of Search after sort.Slice, before the limit: the
\* models with their scores. Nothing when Search returns at the empty query.
SearchRanked(query, order) ==
    IF query = <<>> THEN <<>> ELSE SortRanked(Scored(ToLower(query), order))

\* The queries and limits callers search with.
SearchQueries ==
    { <<>>, <<"X">>, <<"b","/","x">>, <<"g">>, <<"a">> }
SearchLimits == {-1, 0, MaxLimit}

Search(query, limit) ==
    /\ CanRead
    /\ \E order \in RangeOrders :
          last' = [op |-> "Search", query |-> query, limit |-> limit,
                   ranked |-> SearchRanked(query, order),
                   ret |-> SearchResult(query, limit, order)]
    /\ prev' = IF last.op = "Search" /\ last.query = query THEN last ELSE NoCall
    /\ UNCHANGED <<staticRegistry, aliasIndex, q, gen>>

NextSearch == \E query \in SearchQueries, limit \in SearchLimits : Search(query, limit)

SpecSearch == Init /\ [][NextSearch]_vars

\* ------------------------------------------------------------ claims: search
\* C9: Search("", n) returns an empty result for every limit n and every
\* registry content.
C9_EmptyQueryEmptyResult ==
    (last.op = "Search" /\ last.query = <<>>) => last.ret = <<>>

\* Search("", n) has returned for a limit n <= 0 on a registry with records.
C9_Witness ==
    /\ last.op = "Search"
    /\ last.query = <<>>
    /\ last.limit <= 0
    /\ DOMAIN staticRegistry # {}
    /\ last.ret = <<>>

\* The records a query matches: lowercase(query) is part of the lowercased
\* ID, name or an alias.
Matches(R, query) ==
    \/ Contains(ToLower(R.IDVal), ToLower(query))
    \/ Contains(ToLower(R.NameVal), ToLower(query))
    \/ \E i \in DOMAIN R.AliasList : Contains(ToLower(R.AliasList[i]), ToLower(query))

\* Two Search calls in a row had the same query.
SameQueryTwice ==
    prev.op = "Search" /\ last.op = "Search" /\ prev.query = last.query

Min(a, b) == IF a <= b THEN a ELSE b

\* C10: for a limit n > 0, Search(q, n) has at most n results and is the
\* first min(n, total) elements of Search(q, 0); for n <= 0, Search(q, n) is
\* the full ranked list.
C10_LimitIsPrefix ==
    /\ (last.op = "Search" /\ last.limit > 0) => Len(last.ret) <= last.limit
    /\ (SameQueryTwice /\ last.limit > 0 /\ prev.limit = 0) =>
          last.ret = SubSeq(prev.ret, 1, Min(last.limit, Len(prev.ret)))
    /\ (SameQueryTwice /\ prev.limit > 0 /\ last.limit = 0) =>
          prev.ret = SubSeq(last.ret, 1, Min(prev.limit, Len(last.ret)))
    /\ (SameQueryTwice /\ prev.limit <= 0 /\ last.limit <= 0) => prev.ret = last.ret
    /\ (last.op = "Search" /\ last.limit <= 0 /\ last.query # <<>>) =>
          Len(last.ret) = Cardinality({ R \in AllRecords : Matches(R, last.query) })

\* Search(q, 0) has returned two or more records and Search(q, n), called
\* next with 0 < n < total, has returned n of them.
C10_Witness ==
    /\ SameQueryTwice
    /\ prev.limit = 0
    /\ last.limit > 0
    /\ Len(prev.ret) > last.limit
    /\ Len(last.ret) = last.limit

\* C11 as stated: for every primary key K of the registry, Search(K, 1)
\* returns exactly one record and its ID is K.
C11_ExactKeyRanksFirst ==
    (last.op = "Search" /\ last.limit = 1 /\ last.query \in DOMAIN staticRegistry) =>
        /\ Len(last.ret) = 1
        /\ last.ret[1].IDVal = last.query

\* C12: the result of Search is ordered: of two consecutive results the first
\* has the higher score, or the same score and the smaller ID; so two Search
\* calls with the same query and limit return the same sequence, whatever
\* order the range over the registry takes in each.
C12_SearchTotallyOrdered ==
    /\ last.op = "Search" =>
          \A i \in 1..(Len(last.ret) - 1) :
              LET sx == Score(last.ret[i], ToLower(last.query))
                  sy == Score(last.ret[i + 1], ToLower(last.query))
              IN  \/ sx > sy
                  \/ sx = sy /\ StrLess(last.ret[i].IDVal, last.ret[i + 1].IDVal)
    /\ (SameQueryTwice /\ prev.limit = last.limit) => prev.ret = last.ret

\* Search has returned, twice in a row for the same query and limit, two
\* records of equal score, the one with the smaller ID first.
C12_Witness ==
    /\ SameQueryTwice
    /\ prev.limit = last.limit
    /\ Len(last.ret) >= 2
    /\ Score(last.ret[1], ToLower(last.query)) = Score(last.ret[2], ToLower(last.query))
    /\ StrLess(last.ret[1].IDVal, last.ret[2].IDVal)

\* ---------------------------------------------------------- repeated reads
\* Every read operation, called by one caller in any sequence, with few
\* arguments each so that the same call is made twice in a row.
RepeatNames == { <<"X">>, <<"g">> }
RepeatQueries == { <<"x">>, <<"g">> }

\* func Total() int
Total ==
    /\ CanRead
    /\ last' = [op |-> "Total", ret |-> Cardinality(DOMAIN staticRegistry)]
    /\ prev' = IF last.op = "Total" THEN last ELSE NoCall
    /\ UNCHANGED <<staticRegistry, aliasIndex, q, gen>>

NextRepeat ==
    \/ Total
    \/ \E name \in RepeatNames : Get(name)
    \/ \E names \in [1..2 -> RepeatNames] : GetMany(names)
    \/ Query
    \/ Provider(<<"p">>)
    \/ Has(ModalityTextIn)
    \/ List
    \/ \E query \in RepeatQueries : Search(query, MaxLimit)

SpecRepeat == Init /\ [][NextRepeat]_vars

\* The last two calls were the same read operation with the same arguments
\* (for List: on the same builder, unchanged in between).
SameCallTwice ==
    /\ prev.op # "none"
    /\ prev.op = last.op
    /\ last.op = "Search" => prev.limit = last.limit

\* C13 as stated: a read operation repeated with identical arguments returns
\* an identical result, for lists the same records in the same order.
C13_Original == SameCallTwice => prev.ret = last.ret

\* C13 as amended: a read operation repeated with identical arguments returns
\* an identical result, except that List() returns the same records, each
\* once, in an order that may differ from call to call.
C13_RepeatReads ==
    SameCallTwice =>
        IF last.op = "List"
        THEN /\ Members(prev.ret) = Members(last.ret)
             /\ Len(prev.ret) = Len(last.ret)
             /\ Len(last.ret) = Cardinality(Members(last.ret))
        ELSE prev.ret = last.ret

\* List() has returned, twice in a row on one builder, the same records in
\* two different orders.
C13_Witness ==
    /\ SameCallTwice
    /\ last.op = "List"
    /\ prev.ret # last.ret
    /\ Members(prev.ret) = Members(last.ret)

\* ------------------------------------------- the build, then the start-up
\* A YAML file under models/. kind "single": the file decodes as one
\* ModelRegistry. kind "map": the file decodes as RegistryData with a
\* non-empty models map, held as the set of its [key, model] pairs.
SingleFile(m) == [kind |-> "single", model |-> m, models |-> {}]

MapFile(pairs) == [kind |-> "map", model |-> Entry(<<>>, <<>>, <<>>, 0, <<>>), models |-> pairs]

\* The candidate files: one per catalogue entry, a model file with a name and
\* no id, a model that declares the alias X, and a map file whose two entries
\* end under the same ID.
FilePool ==
    { SingleFile(e) : e \in Catalog }
        \cup { SingleFile(Entry(<<>>, <<"g">>, <<"p">>, ModalityTextIn, <<>>)),
               SingleFile(Entry(<<"b","/","x","y">>, <<"x","y">>, <<"P">>,
                                CapFunctionCall, << <<"X">> >>)),
               MapFile({ [key |-> <<"a","/","x">>,
                          model |-> Entry(<<>>, <<"x">>, <<"p">>, ModalityTextIn, <<>>)],
                         [key |-> <<"x">>,
                          model |-> Entry(<<"a","/","x">>, <<"g">>, <<"Q">>, 0,
                                          << <<"y">> >>)] }) }

\* The files in the order filepath.Walk visits them.
FileLists == UNION { [1..n -> FilePool] : n \in 0..MaxModels }

\* models[m.ID] = m
PutModel(models, m) == { e \in models : e.ID # m.ID } \cup {m}

\* The body of the range over data.Models, for the pairs in one order.
RECURSIVE PutPairs(_, _)
PutPairs(models, pairs) ==
    IF pairs = <<>> THEN models
    ELSE LET m  == pairs[1].model
             id == IF m.ID = <<>> THEN pairs[1].key ELSE m.ID
         IN  PutPairs(PutModel(models, [m EXCEPT !.ID = id]), Tail(pairs))

\* The walk callback on one file: every map it can leave, one per order of
\* the range over data.Models.
LoadFile(models, f) ==
    IF f.kind = "map"
    THEN { PutPairs(models, o) : o \in Orders(f.models) }
    ELSE IF f.model.ID # <<>> \/ f.model.Name # <<>>
         THEN IF f.model.ID # <<>> THEN {PutModel(models, f.model)} ELSE {models}
         ELSE {models}

\* loadRegistry: every map the walk over the files can return.
RECURSIVE LoadRegistryResults(_)
LoadRegistryResults(files) ==
    IF files = <<>> THEN {{}}
    ELSE UNION { LoadFile(models, files[Len(files)]) :
                   models \in LoadRegistryResults(SubSeq(files, 1, Len(files) - 1)) }

\* The generator starts on the files; the package's two maps are nil.
InitGenerator ==
    \E files \in FileLists :
        /\ gen = [pc |-> "loadRegistry", files |-> files, finalModels |-> {},
                  processedModels |-> <<>>, aliasMap |-> <<>>]
        /\ staticRegistry = <<>>
        /\ aliasIndex = <<>>
        /\ q = NewBuilder
        /\ last = NoCall
        /\ prev = NoCall

\* Step 4 of main.
LoadRegistry ==
    /\ gen.pc = "loadRegistry"
    /\ \E models \in LoadRegistryResults(gen.files) :
          gen' = [gen EXCEPT !.pc = "process", !.finalModels = models]
    /\ UNCHANGED <<staticRegistry, aliasIndex, q, last, prev>>

\* Step 4 when the walk returns an error (a directory or a file that cannot
\* be read): log.Fatalf.
LoadRegistryFails ==
    /\ gen.pc = "loadRegistry"
    /\ gen' = [gen EXCEPT !.pc = "fatal"]
    /\ UNCHANGED <<staticRegistry, aliasIndex, q, last, prev>>

\* Step 5: one ProcessedModel per entry, in the order of the map range.
Process ==
    /\ gen.pc = "process"
    /\ \E order \in Orders(gen.finalModels) :
          gen' = [gen EXCEPT !.pc = "suffixAliases", !.processedModels = order]
    /\ UNCHANGED <<staticRegistry, aliasIndex, q, last, prev>>

\* Step 6: both loops.
SuffixAliases ==
    /\ gen.pc = "suffixAliases"
    /\ gen' = [gen EXCEPT !.pc = "sort",
                          !.processedModels =
                              [i \in DOMAIN @ |-> WithSuffixAlias(@, @[i])]]
    /\ UNCHANGED <<staticRegistry, aliasIndex, q, last, prev>>

\* sort.Slice by ID.
SortModels ==
    /\ gen.pc = "sort"
    /\ gen' = [gen EXCEPT !.pc = "aliasMap", !.processedModels = SortByID(@)]
    /\ UNCHANGED <<staticRegistry, aliasIndex, q, last, prev>>

\* Step 7.
PopulateAliasMap ==
    /\ gen.pc = "aliasMap"
    /\ gen' = [gen EXCEPT !.pc = "generateCode",
                          !.aliasMap = AliasMapOf(gen.processedModels)]
    /\ UNCHANGED <<staticRegistry, aliasIndex, q, last, prev>>

\* Step 8: models_gen.go is written; a program built with it starts next.
GenerateCode ==
    /\ gen.pc = "generateCode"
    /\ gen' = [gen EXCEPT !.pc = "init_staticRegistry"]
    /\ UNCHANGED <<staticRegistry, aliasIndex, q, last, prev>>

\* Step 8 when the template, the formatter or the write fails: log.Fatalf.
GenerateCodeFails ==
    /\ gen.pc = "generateCode"
    /\ gen' = [gen EXCEPT !.pc = "fatal"]
    /\ UNCHANGED <<staticRegistry, aliasIndex, q, last, prev>>

\* The first statement of the generated init().
InitStaticRegistry ==
    /\ gen.pc = "init_staticRegistry"
    /\ staticRegistry' = RegistryOf(gen.processedModels)
    /\ gen' = [gen EXCEPT !.pc = "init_aliasIndex"]
    /\ UNCHANGED <<aliasIndex, q, last, prev>>

\* The second statement of the generated init(); then main runs.
InitAliasIndex ==
    /\ gen.pc = "init_aliasIndex"
    /\ aliasIndex' = gen.aliasMap
    /\ gen' = [gen EXCEPT !.pc = "main"]
    /\ UNCHANGED <<staticRegistry, q, last, prev>>

NextGenerator ==
    \/ LoadRegistry
    \/ LoadRegistryFails
    \/ Process
    \/ SuffixAliases
    \/ SortModels
    \/ PopulateAliasMap
    \/ GenerateCode
    \/ GenerateCodeFails
    \/ InitStaticRegistry
    \/ InitAliasIndex
    \/ \E name \in RepeatNames : Get(name)
    \/ GetMany(<< <<"X">>, <<"g">> >>)
    \/ List
    \/ Search(<<"x">>, 0)

SpecGenerator == InitGenerator /\ [][NextGenerator]_vars


\* The generator has finished and the program built on its output has run
\* init().
Built == gen.pc = "main"

\* The records with a key vendor/tail other than m with the tail of m.
SameTail(m) ==
    { o \in gen.finalModels : o # m /\ HasSlash(o.ID) /\ Suffix(o.ID) = Suffix(m.ID) }

\* The primary keys of the records whose alias list has the alias a in some
\* spelling.
Claimants(a) ==
    { id \in DOMAIN staticRegistry :
        \E i \in DOMAIN staticRegistry[id].AliasList :
            ToLower(staticRegistry[id].AliasList[i]) = a }

Found(id) == [m |-> <<staticRegistry[id]>>, ok |-> TRUE]

\* C14 as stated: a key vendor/tail whose tail no other key has gets the tail
\* as an alias that resolves to it, and Get(tail) returns it; a tail that two
\* or more keys share is added to the aliases of none of them.
C14_Original ==
    Built =>
        \A m \in gen.finalModels :
            HasSlash(m.ID) =>
                IF SameTail(m) = {}
                THEN /\ ToLower(Suffix(m.ID)) \in DOMAIN aliasIndex
                     /\ aliasIndex[ToLower(Suffix(m.ID))] = m.ID
                     /\ GetResult(Suffix(m.ID)) = Found(m.ID)
                ELSE staticRegistry[m.ID].AliasList = m.Aliases

\* C14, amended: a key vendor/tail whose tail no other key has carries the tail
\* in its alias list (in some spelling); the alias index maps the lowercased
\* tail to it unless a record with a smaller primary key carries the same
\* lowercased alias, and Get(tail) then returns it unless the tail is itself a
\* primary key. A tail that two or more keys share is added to the aliases of
\* none of them.
C14_SuffixAliases ==
    Built =>
        \A m \in gen.finalModels :
            HasSlash(m.ID) =>
                LET tail  == Suffix(m.ID)
                    first == \A id \in Claimants(ToLower(tail)) : ~ StrLess(id, m.ID)
                IN  IF SameTail(m) = {}
                    THEN /\ \E i \in DOMAIN staticRegistry[m.ID].AliasList :
                               EqualFold(staticRegistry[m.ID].AliasList[i], tail)
                         /\ first => /\ ToLower(tail) \in DOMAIN aliasIndex
                                     /\ aliasIndex[ToLower(tail)] = m.ID
                         /\ (first /\ tail \notin DOMAIN staticRegistry)
                                => GetResult(tail) = Found(m.ID)
                    ELSE staticRegistry[m.ID].AliasList = m.Aliases

\* Two keys with different tails; one of them did not declare its tail, got
\* it as an alias, and Get(tail) returns it.
C14_Witness ==
    /\ Built
    /\ Cardinality(gen.finalModels) = 2
    /\ \E m \in gen.finalModels :
          /\ HasSlash(m.ID)
          /\ SameTail(m) = {}
          /\ \A i \in DOMAIN m.Aliases : ~ EqualFold(m.Aliases[i], Suffix(m.ID))
          /\ GetResult(Suffix(m.ID)) = Found(m.ID)

C16_AliasIndexWellFormed ==
    Built =>
        \A a \in DOMAIN aliasIndex :
            /\ aliasIndex[a] \in DOMAIN staticRegistry
            /\ a = ToLower(a)

\* A record declared an alias with capital letters and the index holds it.
C16_Witness ==
    /\ Built
    /\ \E id \in DOMAIN staticRegistry :
          \E i \in DOMAIN staticRegistry[id].AliasList :
              /\ staticRegistry[id].AliasList[i] # ToLower(staticRegistry[id].AliasList[i])
              /\ ToLower(staticRegistry[id].AliasList[i]) \in DOMAIN aliasIndex
              /\ aliasIndex[ToLower(staticRegistry[id].AliasList[i])] = id


\* C19: a call of Get, GetMany, List or Search is made only with both maps as
\* the generator built them, and each map is written once, by its statement of
\* init(), never after.
C19_PopulatedOnceBeforeReads ==
    /\ [](last.op # "none" =>
             /\ staticRegistry = RegistryOf(gen.processedModels)
             /\ aliasIndex = gen.aliasMap)
    /\ [][/\ staticRegistry' # staticRegistry => gen.pc = "init_staticRegistry"
          /\ aliasIndex' # aliasIndex => gen.pc = "init_aliasIndex"
          /\ last' # last => UNCHANGED <<staticRegistry, aliasIndex>>]_vars

\* Get found a record through a registry of two records and a non-empty
\* alias index.
C19_Witness ==
    /\ last.op = "Get"
    /\ last.ret.ok
    /\ Cardinality(DOMAIN staticRegistry) = 2
    /\ DOMAIN aliasIndex # {}

\* The primary keys the files give, one element per record: the file, the key
\* in the file's models map (none for a single model) and the primary key.
RecordKeys(files) ==
    UNION { IF files[i].kind = "map"
            THEN { <<i, pair.key,
                     IF pair.model.ID = <<>> THEN pair.key ELSE pair.model.ID>> :
                       pair \in files[i].models }
            ELSE IF files[i].model.ID # <<>> \/ files[i].model.Name # <<>>
                 THEN { <<i, <<>>, files[i].model.ID>> }
                 ELSE {} : i \in DOMAIN files }

\* C20: when a record of the input has an empty primary key or two records
\* have the same primary key, the generator goes no further than loading:
\* it ends in the fatal error.
C20_FatalOnBadKeys ==
    (\/ \E r \in RecordKeys(gen.files) : r[3] = <<>>
     \/ \E r1, r2 \in RecordKeys(gen.files) : r1 # r2 /\ r1[3] = r2[3])
        => gen.pc \in {"loadRegistry", "fatal"}


\* ---------------------------------------------------------- Capability
\* var capabilityNames. A name is held whole, as one token.
capabilityNames ==
    << [mask |-> ModalityTextIn,   name |-> "TextIn"],
       [mask |-> ModalityTextOut,  name |-> "TextOut"],
       [mask |-> ModalityImageIn,  name |-> "ImageIn"],
       [mask |-> ModalityImageOut, name |-> "ImageOut"],
       [mask |-> ModalityAudioIn,  name |-> "AudioIn"],
       [mask |-> ModalityAudioOut, name |-> "AudioOut"],
       [mask |-> ModalityVideoIn,  name |-> "VideoIn"],
       [mask |-> ModalityVideoOut, name |-> "VideoOut"],
       [mask |-> ModalityFileIn,   name |-> "FileIn"],
       [mask |-> ModalityFileOut,  name |-> "FileOut"],
       [mask |-> CapFunctionCall,  name |-> "FunctionCall"],
       [mask |-> CapJsonMode,      name |-> "JsonMode"],
       [mask |-> CapSystemPrompt,  name |-> "SystemPrompt"] >>

\* Has with the test for all the bits of other.
CapabilityHasAll(c, other) == BitAnd(c, other) = other

\* func (c Capability) Has(other Capability) bool
CapabilityHas(c, other) == BitAnd(c, other) # 0

\* func (m *modelData) HasCapability(c Capability) bool
HasCapability(m, c) == BitAnd(m.FeaturesVal, c) # 0

\* a & ^b
RECURSIVE BitAndNot(_, _)
BitAndNot(a, b) ==
    IF a = 0 THEN 0
    ELSE (a % 2) * (1 - (b % 2)) + 2 * BitAndNot(a \div 2, b \div 2)

\* The digits %X writes for v: base 16, capital letters, no leading zero.
RECURSIVE HexDigits(_)
HexDigits(v) ==
    LET digit == <<"0", "1", "2", "3", "4", "5", "6", "7",
                   "8", "9", "A", "B", "C", "D", "E", "F">>[(v % 16) + 1]
    IN  IF v < 16 THEN <<digit>> ELSE Append(HexDigits(v \div 16), digit)

\* fmt.Sprintf("Unknown(0x%X)", v): the text before the digits, the digits,
\* the closing parenthesis.
Unknown(v) == <<"Unknown(0x">> \o HexDigits(v) \o <<")">>

\* The first loop of ToStrings over the entries from the i-th on.
RECURSIVE NamesFrom(_, _)
NamesFrom(c, i) ==
    IF i > Len(capabilityNames) THEN <<>>
    ELSE IF CapabilityHas(c, capabilityNames[i].mask)
         THEN << <<capabilityNames[i].name>> >> \o NamesFrom(c, i + 1)
         ELSE NamesFrom(c, i + 1)

\* The second loop of ToStrings over the first i entries.
RECURSIVE DefinedMask(_)
DefinedMask(i) ==
    IF i = 0 THEN 0 ELSE BitOr(DefinedMask(i - 1), capabilityNames[i].mask)

\* ToStrings without the entry for the bits that have no name.
ToStringsNoUnknown(c) ==
    IF c = 0 THEN <<>> ELSE NamesFrom(c, 1)

\* func (c Capability) ToStrings() []string. Each string of the result is a
\* sequence of tokens.
ToStrings(c) ==
    IF c = 0 THEN <<>>
    ELSE LET names   == NamesFrom(c, 1)
             unknown == BitAndNot(c, DefinedMask(Len(capabilityNames)))
         IN  IF unknown # 0 THEN Append(names, Unknown(unknown)) ELSE names

\* strings.Join(names, sep)
RECURSIVE Join(_, _)
Join(names, sep) ==
    IF names = <<>> THEN <<>>
    ELSE IF Len(names) = 1 THEN names[1]
    ELSE names[1] \o sep \o Join(Tail(names), sep)

\* func (c Capability) String() string
String(c) ==
    LET names == ToStrings(c)
    IN  IF Len(names) = 0 THEN <<"None">> ELSE Join(names, <<"|">>)

\* The single bits capability values are made of: named ones, and bits 10, 19
\* and 30, which have no name.
CapBits ==
    { ModalityTextIn, ModalityTextOut, ModalityImageIn, ModalityFileOut,
      2 ^ 10, CapFunctionCall, CapSystemPrompt, 2 ^ 19, 2 ^ 30 }

RECURSIVE SumOf(_)
SumOf(S) ==
    IF S = {} THEN 0
    ELSE LET x == CHOOSE y \in S : TRUE IN x + SumOf(S \ {x})

\* The capability values: at most MaxCaps bits.
CapabilityValues ==
    { SumOf(S) : S \in { T \in SUBSET CapBits : Cardinality(T) <= MaxCaps } }

\* A registry of one model whose Features is the capability value.
InitCapability ==
    \E c \in CapabilityValues :
        /\ staticRegistry = RegistryOf(<< Entry(<<"x">>, <<"x">>, <<"p">>, c, <<>>) >>)
        /\ aliasIndex = <<>>
        /\ q = NewBuilder
        /\ last = NoCall
        /\ prev = NoCall
        /\ gen = Started

\* m.Features().Has(other)
CallHas(id, other) ==
    /\ CanRead
    /\ last' = [op |-> "Has", c |-> staticRegistry[id].FeaturesVal, other |-> other,
                ret |-> CapabilityHas(staticRegistry[id].FeaturesVal, other)]
    /\ prev' = NoCall
    /\ UNCHANGED <<staticRegistry, aliasIndex, q, gen>>

\* m.HasCapability(other)
CallHasCapability(id, other) ==
    /\ CanRead
    /\ last' = [op |-> "HasCapability", c |-> staticRegistry[id].FeaturesVal,
                other |-> other, ret |-> HasCapability(staticRegistry[id], other)]
    /\ prev' = NoCall
    /\ UNCHANGED <<staticRegistry, aliasIndex, q, gen>>

\* m.Features().ToStrings()
CallToStrings(id) ==
    /\ CanRead
    /\ last' = [op |-> "ToStrings", c |-> staticRegistry[id].FeaturesVal,
                ret |-> ToStrings(staticRegistry[id].FeaturesVal)]
    /\ prev' = NoCall
    /\ UNCHANGED <<staticRegistry, aliasIndex, q, gen>>

\* m.Features().String()
CallString(id) ==
    /\ CanRead
    /\ last' = [op |-> "String", c |-> staticRegistry[id].FeaturesVal,
                ret |-> String(staticRegistry[id].FeaturesVal)]
    /\ prev' = NoCall
    /\ UNCHANGED <<staticRegistry, aliasIndex, q, gen>>

NextCapability ==
    \E id \in DOMAIN staticRegistry :
        \/ \E other \in CapabilityArgs : CallHas(id, other)
        \/ \E other \in CapabilityArgs : CallHasCapability(id, other)
        \/ CallToStrings(id)
        \/ CallString(id)

SpecCapability == InitCapability /\ [][NextCapability]_vars

\* C17: Has and HasCapability return true exactly when the value and the mask
\* have a bit in common; with the mask 0 they return false.
C17_HasIsAnyOf ==
    last.op \in {"Has", "HasCapability"} =>
        last.ret = (BitsOf(last.c) \cap BitsOf(last.other) # {})

\* A mask of two bits of which the value has one: the answer was true.
C17_Witness ==
    /\ last.op = "HasCapability"
    /\ last.ret
    /\ Cardinality(BitsOf(last.other)) = 2
    /\ Cardinality(BitsOf(last.other) \cap BitsOf(last.c)) = 1

\* The bits that have a name in the table.
NamedBits == { i \in 0..30 : \E k \in DOMAIN capabilityNames : capabilityNames[k].mask = 2 ^ i }

\* The names of the named bits of c, in the order of the table.
NamedEntries(c) ==
    LET set(e) == \E i \in BitsOf(c) : e.mask = 2 ^ i
        kept   == SelectSeq(capabilityNames, set)
    IN  [k \in DOMAIN kept |-> <<kept[k].name>>]

\* The number a sequence of hexadecimal digits writes.
RECURSIVE HexValue(_)
HexValue(digits) ==
    LET value(d) == CHOOSE v \in 0..15 :
                        d = SubSeq(<<"0", "1", "2", "3", "4", "5", "6", "7", "8", "9",
                                     "A", "B", "C", "D", "E", "F">>, v + 1, v + 1)[1]
    IN  IF digits = <<>> THEN 0
        ELSE 16 * HexValue(SubSeq(digits, 1, Len(digits) - 1)) + value(digits[Len(digits)])

\* entry is Unknown(0x<hex>) where hex writes exactly the bits.
IsUnknownEntry(entry, bits) ==
    /\ Len(entry) >= 3
    /\ entry[1] = "Unknown(0x"
    /\ entry[Len(entry)] = ")"
    /\ entry[2] # "0"
    /\ BitsOf(HexValue(SubSeq(entry, 2, Len(entry) - 1))) = bits

\* names is what C18 says ToStrings(c) is.
IsToStringsOf(names, c) ==
    LET unnamed == BitsOf(c) \ NamedBits
    IN  IF unnamed = {}
        THEN names = NamedEntries(c)
        ELSE /\ Len(names) = Len(NamedEntries(c)) + 1
             /\ SubSeq(names, 1, Len(names) - 1) = NamedEntries(c)
             /\ IsUnknownEntry(names[Len(names)], unnamed)

\* The entries a text is made of, between the "|".
RECURSIVE SplitBar(_)
SplitBar(text) ==
    IF \A i \in DOMAIN text : text[i] # "|" THEN <<text>>
    ELSE LET bar == CHOOSE i \in DOMAIN text :
                        text[i] = "|" /\ \A j \in 1..(i - 1) : text[j] # "|"
         IN  <<SubSeq(text, 1, bar - 1)>> \o SplitBar(SubSeq(text, bar + 1, Len(text)))

\* C18: ToStrings(c) is the names of the named bits of c in table order, then
\* one Unknown(0x<hex>) for the unnamed bits when there are any, and nothing
\* when c is 0; String(c) is these entries with "|" between them, or "None".
C18_ToStringsAndString ==
    /\ last.op = "ToStrings" =>
          /\ IsToStringsOf(last.ret, last.c)
          /\ last.c = 0 => last.ret = <<>>
    /\ last.op = "String" =>
          IF last.c = 0 THEN last.ret = <<"None">>
          ELSE IsToStringsOf(SplitBar(last.ret), last.c)

\* String was called on a value with two named bits or more and an unnamed
\* bit above the first hexadecimal digit.
C18_Witness ==
    /\ last.op = "String"
    /\ Len(NamedEntries(last.c)) >= 2
    /\ \E i \in BitsOf(last.c) \ NamedBits : i >= 19


\* C21: when record X declares an alias that equals, ignoring case, the tail
\* that record Y got as its suffix alias, the alias index maps the alias to X.
C21_ManualAliasWins ==
    Built =>
        \A X, Y \in gen.finalModels :
            \A i \in DOMAIN X.Aliases :
                (/\ X.ID # Y.ID
                 /\ HasSlash(Y.ID)
                 /\ SameTail(Y) = {}
                 /\ \A j \in DOMAIN Y.Aliases : ~ EqualFold(Y.Aliases[j], Suffix(Y.ID))
                 /\ EqualFold(X.Aliases[i], Suffix(Y.ID)))
                    => aliasIndex[ToLower(X.Aliases[i])] = X.ID


\* C22: when the name handed to Get is the primary key of record R and its
\* lowercase spelling is an alias registered to another record S, Get returns
\* R; a record reached through the alias index is returned only when the name
\* is no primary key.
C22_KeyBeforeAlias ==
    last.op = "Get" =>
        /\ (/\ last.name \in DOMAIN staticRegistry
            /\ ToLower(last.name) \in DOMAIN aliasIndex
            /\ aliasIndex[ToLower(last.name)] # last.name)
               => last.ret = [m |-> <<staticRegistry[last.name]>>, ok |-> TRUE]
        /\ (last.ret.ok /\ last.ret.m[1].IDVal # last.name)
               => /\ last.name \notin DOMAIN staticRegistry
                  /\ last.ret.m[1].IDVal = aliasIndex[ToLower(last.name)]

\* Get was handed a primary key whose lowercase spelling is an alias of
\* another record of the registry, and returned the record of the key.
C22_Witness ==
    /\ last.op = "Get"
    /\ last.name \in DOMAIN staticRegistry
    /\ ToLower(last.name) \in DOMAIN aliasIndex
    /\ aliasIndex[ToLower(last.name)] \in DOMAIN staticRegistry \ {last.name}
    /\ last.ret.ok
    /\ last.ret.m[1].IDVal = last.name


\* ------------------------------------------------------ claims: the scores
\* The records Search scored for the last call, with what the claims compare:
\* the lowercased query, ID and name.
RankedRows ==
    { [m |-> last.ranked[i].m, score |-> last.ranked[i].score,
       lq |-> ToLower(last.query),
       id |-> ToLower(last.ranked[i].m.IDVal),
       name |-> ToLower(last.ranked[i].m.NameVal)] : i \in DOMAIN last.ranked }

\* C23 as stated: of the ID rules only the strongest one counts. A record
\* without aliases whose ID is the query scores 100; one without aliases and
\* without a match on the name whose ID starts with the query but is not the
\* query scores 50.
C23_Original ==
    last.op = "Search" =>
        \A r \in RankedRows :
            /\ (r.m.AliasList = <<>> /\ r.id = r.lq) => r.score = 100
            /\ (/\ r.m.AliasList = <<>>
                /\ ~ Contains(r.name, r.lq)
                /\ HasPrefix(r.id, r.lq)
                /\ r.id # r.lq) => r.score = 50

\* C23, amended: the ID rules of the three categories add up. A record without
\* aliases whose ID is the query scores 100 + 50 + 20; one without aliases and
\* without a match on the name whose ID starts with the query but is not the
\* query scores 50 + 20.
C23_IDRulesStack ==
    last.op = "Search" =>
        \A r \in RankedRows :
            /\ (r.m.AliasList = <<>> /\ r.id = r.lq) => r.score = 170
            /\ (/\ r.m.AliasList = <<>>
                /\ ~ Contains(r.name, r.lq)
                /\ HasPrefix(r.id, r.lq)
                /\ r.id # r.lq) => r.score = 70

\* Search scored a record without aliases whose ID is the query.
C23_Witness ==
    /\ last.op = "Search"
    /\ \E r \in RankedRows : r.m.AliasList = <<>> /\ r.id = r.lq /\ r.score = 170

\* Search scored a record without aliases and without a match on the name
\* whose ID starts with the query without being it.
C23_WitnessPrefix ==
    /\ last.op = "Search"
    /\ \E r \in RankedRows :
          /\ r.m.AliasList = <<>>
          /\ ~ Contains(r.name, r.lq)
          /\ HasPrefix(r.id, r.lq)
          /\ r.id # r.lq

\* What one category adds: the ID value when the ID rule matches, else the
\* name value when the name rule matches, else nothing.
CategoryPoints(idMatches, idValue, nameMatches, nameValue) ==
    IF idMatches THEN idValue ELSE IF nameMatches THEN nameValue ELSE 0

AliasesEqual(m, lq) ==
    { i \in DOMAIN m.AliasList : ToLower(m.AliasList[i]) = lq }

AliasesContaining(m, lq) ==
    { i \in DOMAIN m.AliasList :
        ToLower(m.AliasList[i]) # lq /\ Contains(ToLower(m.AliasList[i]), lq) }

\* C25: the score of a record is the score of the same record without aliases
\* plus 80 for every alias that is the query and 15 for every other alias that
\* contains it.
C25_AliasesAdditive ==
    last.op = "Search" =>
        \A r \in RankedRows :
            r.score = Score([r.m EXCEPT !.AliasList = <<>>], r.lq)
                    + 80 * Cardinality(AliasesEqual(r.m, r.lq))
                    + 15 * Cardinality(AliasesContaining(r.m, r.lq))

\* Search scored a record with two aliases or more that contain the query
\* without being it.
C25_Witness ==
    /\ last.op = "Search"
    /\ \E r \in RankedRows :
          /\ Cardinality(AliasesContaining(r.m, r.lq)) >= 2
          /\ r.score >= 30

\* C26: for a query that is not empty, Search(q, 0) returns the records whose
\* lowercased ID, name or one alias contains the lowercased query, each one
\* once, and no other record.
C26_SearchReturnsMatches ==
    (last.op = "Search" /\ last.query # <<>> /\ last.limit = 0) =>
        /\ Members(last.ret) = { R \in AllRecords : Matches(R, last.query) }
        /\ \A i, j \in DOMAIN last.ret : last.ret[i] = last.ret[j] => i = j

\* Search(q, 0) returned a record that only an alias brings in and left out a
\* record of the registry.
C26_Witness ==
    /\ last.op = "Search"
    /\ last.query # <<>>
    /\ last.limit = 0
    /\ \E R \in AllRecords : R \notin Members(last.ret)
    /\ \E i \in DOMAIN last.ret :
          /\ ~ Contains(ToLower(last.ret[i].IDVal), ToLower(last.query))
          /\ ~ Contains(ToLower(last.ret[i].NameVal), ToLower(last.query))


\* C27: no call of Get, GetMany, Query, Provider, Has, List, Search or Total
\* changes the registry, the alias index or a record; the builder changes
\* only in a call of Query, Provider or Has.
C27_ReadsWriteOnlyBuilder ==
    [][/\ staticRegistry' = staticRegistry
       /\ aliasIndex' = aliasIndex
       /\ q' # q => last'.op \in {"Query", "Provider", "Has"}]_vars

\* Reads were made, one of them twice through the alias index, after the
\* builder had been written.
C27_Witness ==
    /\ q.calls # <<>>
    /\ last.op = "Get"
    /\ prev.op = "Get"
    /\ last.ret.ok
    /\ last.name \notin DOMAIN staticRegistry


\* ------------------------------------------------- the alias list handed out
\* The program in main, with what the generator built kept for comparison.
InitServing ==
    \E D \in Datasets : \E order \in Orders(D) :
        LET models == ProcessedModels(order)
        IN  /\ staticRegistry = RegistryOf(models)
            /\ aliasIndex = AliasMapOf(models)
            /\ q = NewBuilder
            /\ last = NoCall
            /\ prev = NoCall
            /\ gen = [pc |-> "main", files |-> <<>>, finalModels |-> D,
                      processedModels |-> models, aliasMap |-> AliasMapOf(models)]

\* func (m *modelData) Aliases() []string { return m.AliasList }: the slice
\* returned has the backing array of the record's own slice.
Aliases(id) ==
    /\ CanRead
    /\ last' = [op |-> "Aliases", id |-> id, ret |-> staticRegistry[id].AliasList]
    /\ prev' = NoCall
    /\ UNCHANGED <<staticRegistry, aliasIndex, q, gen>>

\* The caller assigns to element i of the slice Aliases() just returned: the
\* element of the shared backing array, so of the record's list.
Overwrite(i, alias) ==
    /\ last.op = "Aliases"
    /\ i \in DOMAIN last.ret
    /\ staticRegistry' = [staticRegistry EXCEPT ![last.id].AliasList[i] = alias]
    /\ last' = [op |-> "Overwrite", id |-> last.id, i |-> i, alias |-> alias]
    /\ prev' = NoCall
    /\ UNCHANGED <<aliasIndex, q, gen>>

NextAliases ==
    \/ \E id \in DOMAIN staticRegistry : Aliases(id)
    \/ \E i \in 1..MaxNames : Overwrite(i, <<"g">>)
    \/ \E query \in RepeatQueries : Search(query, 0)

SpecAliases == InitServing /\ [][NextAliases]_vars

\* The records as the generator built them.
BuiltRecords ==
    { ModelData(gen.processedModels[i]) : i \in DOMAIN gen.processedModels }

\* C28: whatever a caller wrote into a list that Aliases() returned, Aliases()
\* returns the list the record was built with, and Search(q, 0) returns the
\* records that match q as they were built.
C28_AliasListIsolated ==
    /\ last.op = "Aliases" =>
          \E R \in BuiltRecords : R.IDVal = last.id /\ R.AliasList = last.ret
    /\ (last.op = "Search" /\ last.limit = 0) =>
          { last.ret[i].IDVal : i \in DOMAIN last.ret }
              = { R.IDVal : R \in { B \in BuiltRecords : Matches(B, last.query) } }


\* ------------------------------------------------------ claims: the builder
\* The records List keeps for builder b.
Kept(b) == { R \in AllRecords : Keeps(b, R) }

\* C29: Query().Has(A).Has(B).List() returns the records that
\* Query().Has(B).Has(A).List() and Query().Has(A|B).List() return; with
\* B = A, those of Query().Has(A).List(); and never a record that
\* Query().Has(A).List() does not return.
C29_HasCumulative ==
    (/\ last.op = "List"
     /\ Len(q.calls) = 2
     /\ q.calls[1].fn = "Has"
     /\ q.calls[2].fn = "Has") =>
        LET A == q.calls[1].arg
            B == q.calls[2].arg
        IN  /\ Members(last.ret) = Kept(WithHas(WithHas(NewBuilder, B), A))
            /\ Members(last.ret) = Kept(WithHas(NewBuilder, BitOr(A, B)))
            /\ A = B => Members(last.ret) = Kept(WithHas(NewBuilder, A))
            /\ Members(last.ret) \subseteq Kept(WithHas(NewBuilder, A))

\* Query().Has(A).Has(B).List() returned a record, with A and B two different
\* capabilities, and left out a record that Has(A) alone keeps.
C29_Witness ==
    /\ last.op = "List"
    /\ Len(q.calls) = 2
    /\ q.calls[1].fn = "Has"
    /\ q.calls[2].fn = "Has"
    /\ q.calls[1].arg \notin {0, q.calls[2].arg}
    /\ q.calls[2].arg # 0
    /\ Kept(WithHas(NewBuilder, q.calls[1].arg)) \ Members(last.ret) # {}
    /\ last.ret # <<>>


\* ------------------------------------------------------------ two builders
\* The caller holds two builders, each the result of a Query() call. In this
\* specification q maps the name of a builder to the builder.
Builders == {"a", "b"}

\* The datasets of entries that declare no alias; the providers and the
\* capabilities asked for.
BuilderDatasets == { D \in Datasets : \A e \in D : e.Aliases = <<>> }
BuilderProviders == { <<>>, <<"p">>, <<"Q">> }
BuilderCaps == { ModalityTextIn, ModalityTextOut }

InitBuilders ==
    \E D \in BuilderDatasets : \E order \in Orders(D) :
        LET models == ProcessedModels(order)
        IN  /\ staticRegistry = RegistryOf(models)
            /\ aliasIndex = AliasMapOf(models)
            /\ q = [b \in Builders |-> NewBuilder]
            /\ last = NoCall
            /\ prev = NoCall
            /\ gen = Started

\* b = Query()
QueryAt(b) ==
    /\ CanRead
    /\ q' = [q EXCEPT ![b] = NewBuilder]
    /\ last' = [op |-> "Query", on |-> b]
    /\ UNCHANGED <<staticRegistry, aliasIndex, prev, gen>>

\* b.Provider(p)
ProviderAt(b, p) ==
    /\ CanRead
    /\ q' = [q EXCEPT ![b] = WithProvider(@, p)]
    /\ last' = [op |-> "Provider", on |-> b, arg |-> p]
    /\ UNCHANGED <<staticRegistry, aliasIndex, prev, gen>>

\* b.Has(cap)
HasAt(b, cap) ==
    /\ CanRead
    /\ q' = [q EXCEPT ![b] = WithHas(@, cap)]
    /\ last' = [op |-> "Has", on |-> b, arg |-> cap]
    /\ UNCHANGED <<staticRegistry, aliasIndex, prev, gen>>

\* b.List()
ListAt(b) ==
    /\ CanRead
    /\ \E order \in RangeOrders :
          last' = [op |-> "List", on |-> b, ret |-> ListResult(q[b], order)]
    /\ UNCHANGED <<staticRegistry, aliasIndex, q, prev, gen>>

NextBuilders ==
    \E b \in Builders :
        \/ QueryAt(b)
        \/ \E p \in BuilderProviders : ProviderAt(b, p)
        \/ \E cap \in BuilderCaps : HasAt(b, cap)
        \/ ListAt(b)

SpecBuilders == InitBuilders /\ [][NextBuilders]_vars

\* The records that pass the predicates of builder b: the provider, when one
\* is set, ignoring case, and every capability bit asked for.
Passing(b) ==
    { R \in AllRecords :
        /\ b.provider # <<>> => ToLower(R.ProviderVal) = ToLower(b.provider)
        /\ BitsOf(b.capability) \subseteq BitsOf(R.FeaturesVal) }

\* C30: Query() gives a builder without predicates; Provider sets the provider
\* of its builder to its argument, the empty one included, and Has adds its
\* bits to the capabilities of its builder; no call changes another builder,
\* and List() on a builder returns the records that pass the predicates of
\* that builder alone.
C30_BuildersIndependent ==
    [][/\ \A b \in Builders \ {last'.on} : q'[b] = q[b]
       /\ last'.op = "Query" =>
             q'[last'.on].provider = <<>> /\ q'[last'.on].capability = 0
       /\ last'.op = "Provider" =>
             /\ q'[last'.on].provider = last'.arg
             /\ q'[last'.on].capability = q[last'.on].capability
       /\ last'.op = "Has" =>
             /\ BitsOf(q'[last'.on].capability)
                   = BitsOf(q[last'.on].capability) \cup BitsOf(last'.arg)
             /\ q'[last'.on].provider = q[last'.on].provider
       /\ last'.op = "List" =>
             /\ q' = q
             /\ { last'.ret[i] : i \in DOMAIN last'.ret } = Passing(q[last'.on])]_vars

\* List() on one builder returned records and left one out, while the other
\* builder holds other predicates that pass other records; the builder listed
\* has a provider and a capability set.
C30_Witness ==
    /\ last.op = "List"
    /\ last.ret # <<>>
    /\ AllRecords \ Members(last.ret) # {}
    /\ q[last.on].provider # <<>>
    /\ q[last.on].capability # 0
    /\ \E b \in Builders :
          /\ q[b].provider # q[last.on].provider
          /\ q[b].capability # q[last.on].capability
          /\ Passing(q[b]) # Members(last.ret)

====
